---------------------------- MODULE Spec2Model ----------------------------
(***************************************************************************)
(* Model of the Mach-O bind opcode interpreter of src/mach/imports.rs:     *)
(* BindInformation (the accumulator), Import::new (the materializer),      *)
(* BindInterpreter::new / imports / run (the two passes and the opcode     *)
(* loop).                                                                  *)
(*                                                                         *)
(* Bytes are integers 0..255.  A u64 is a tuple of ten base-128 digits,    *)
(* least significant first, whose tenth digit is 0 or 1 (9*7+1 = 64 bits): *)
(* TLC's integers are 32 bits wide, and a ULEB128 varint is exactly such a *)
(* digit string.  An i64 is held as its two's complement u64.              *)
(***************************************************************************)
EXTENDS Integers, Sequences, FiniteSets, TLC

(***************************************************************************)
(* 64-bit arithmetic                                                       *)
(***************************************************************************)
Base == 128

NDigits == 10

Digit == 0 .. (Base - 1)

\* the ten digits d[1] .. d[10] as a tuple
Digits(d) == << d[1], d[2], d[3], d[4], d[5], d[6], d[7], d[8], d[9], d[10] >>

\* the u64 whose value is the small natural n (n < 128^3)
U64(n) ==
    Digits([i \in 1 .. NDigits |->
               IF i = 1 THEN n % Base
               ELSE IF i = 2 THEN (n \div Base) % Base
               ELSE IF i = 3 THEN (n \div (Base * Base)) % Base
               ELSE 0])

Zero64 == U64(0)

\* 2^64 - 1
Max64 == Digits([i \in 1 .. NDigits |-> IF i = NDigits THEN 1 ELSE Base - 1])

RECURSIVE AddCarry(_, _, _)
\* the carry into digit i of a + b
AddCarry(a, b, i) ==
    IF i = 1 THEN 0 ELSE (a[i - 1] + b[i - 1] + AddCarry(a, b, i - 1)) \div Base

\* a + b had a carry out of bit 63
AddOverflows(a, b) == a[NDigits] + b[NDigits] + AddCarry(a, b, NDigits) >= 2

\* u64::wrapping_add
WrappingAdd(a, b) ==
    Digits([i \in 1 .. NDigits |->
               IF i = NDigits
               THEN (a[i] + b[i] + AddCarry(a, b, i)) % 2
               ELSE (a[i] + b[i] + AddCarry(a, b, i)) % Base])

\* the coefficient of 128^(k-1) in the product a * b, before carries
MulColumn(a, b, k) ==
    LET Term(i) == IF k + 1 - i \in 1 .. NDigits THEN a[i] * b[k + 1 - i] ELSE 0
    IN  Term(1) + Term(2) + Term(3) + Term(4) + Term(5)
        + Term(6) + Term(7) + Term(8) + Term(9) + Term(10)

RECURSIVE MulDigits(_, _, _, _)
\* the digits k .. 2*NDigits of the exact product a * b, given the carry
\* into digit k
MulDigits(a, b, k, carry) ==
    IF k > 2 * NDigits THEN << >>
    ELSE LET t == MulColumn(a, b, k) + carry
         IN  << t % Base >> \o MulDigits(a, b, k + 1, t \div Base)

\* the exact product a * b: twenty digits
Product(a, b) == MulDigits(a, b, 1, 0)

\* the twenty-digit number p does not fit 64 bits
Exceeds64(p) ==
    \/ p[NDigits] >= 2
    \/ \E k \in (NDigits + 1) .. (2 * NDigits) : p[k] # 0

\* the twenty-digit number p modulo 2^64
Low64(p) ==
    Digits([i \in 1 .. NDigits |-> IF i = NDigits THEN p[i] % 2 ELSE p[i]])

\* a * b does not fit 64 bits
MulOverflows(a, b) == Exceeds64(Product(a, b))

\* a * b modulo 2^64
WrappingMul(a, b) == Low64(Product(a, b))

(***************************************************************************)
(* mach::bind_opcodes: a one-byte opcode is a 4-bit operation and a 4-bit  *)
(* immediate.                                                              *)
(***************************************************************************)
BIND_TYPE_POINTER == 1

\* 0xF0
BIND_OPCODE_MASK == 240

\* 0x0F
BIND_IMMEDIATE_MASK == 15

\* 0x00
BIND_OPCODE_DONE == 0

\* 0x10
BIND_OPCODE_SET_DYLIB_ORDINAL_IMM == 16

\* 0x20
BIND_OPCODE_SET_DYLIB_ORDINAL_ULEB == 32

\* 0x30
BIND_OPCODE_SET_DYLIB_SPECIAL_IMM == 48

\* 0x40
BIND_OPCODE_SET_SYMBOL_TRAILING_FLAGS_IMM == 64

\* 0x50
BIND_OPCODE_SET_TYPE_IMM == 80

\* 0x60
BIND_OPCODE_SET_ADDEND_SLEB == 96

\* 0x70
BIND_OPCODE_SET_SEGMENT_AND_OFFSET_ULEB == 112

\* 0x80
BIND_OPCODE_ADD_ADDR_ULEB == 128

\* 0x90
BIND_OPCODE_DO_BIND == 144

\* 0xA0
BIND_OPCODE_DO_BIND_ADD_ADDR_ULEB == 160

\* 0xB0
BIND_OPCODE_DO_BIND_ADD_ADDR_IMM_SCALED == 176

\* 0xC0
BIND_OPCODE_DO_BIND_ULEB_TIMES_SKIPPING_ULEB == 192

\* x & mask for the two masks of an opcode byte: 0xF0 keeps the high nibble,
\* 0x0F the low one
BitAnd(x, mask) ==
    IF mask = BIND_OPCODE_MASK THEN (x \div 16) * 16 ELSE x % 16

\* the arms of the match in run that push an Import
DoBindFamily ==
    { BIND_OPCODE_DO_BIND, BIND_OPCODE_DO_BIND_ADD_ADDR_ULEB,
      BIND_OPCODE_DO_BIND_ADD_ADDR_IMM_SCALED,
      BIND_OPCODE_DO_BIND_ULEB_TIMES_SKIPPING_ULEB }

\* the operations the match in run has an arm for
KnownOperations ==
    { BIND_OPCODE_DONE, BIND_OPCODE_SET_DYLIB_ORDINAL_IMM,
      BIND_OPCODE_SET_DYLIB_ORDINAL_ULEB, BIND_OPCODE_SET_DYLIB_SPECIAL_IMM,
      BIND_OPCODE_SET_SYMBOL_TRAILING_FLAGS_IMM, BIND_OPCODE_SET_TYPE_IMM,
      BIND_OPCODE_SET_ADDEND_SLEB, BIND_OPCODE_SET_SEGMENT_AND_OFFSET_ULEB,
      BIND_OPCODE_ADD_ADDR_ULEB } \cup DoBindFamily

(***************************************************************************)
(* The scroll read primitives, as run calls them: every read is bounded by *)
(* the whole buffer self.data, never by the end of the range being read.   *)
(* Offsets are 0-based as in the code; data[off + 1] is the byte at off.   *)
(***************************************************************************)
ReadErr == [ok |-> FALSE]

\* a byte read as i8 (gread::<i8>)
AsI8(b) == IF b >= 128 THEN b - 256 ELSE b

\* an i8 cast to bind_opcodes::Opcode (u8)
AsOpcode(i) == i % 256

\* self.data.gread::<i8>(offset)? as bind_opcodes::Opcode
ReadOpcode(data, off) ==
    IF off >= Len(data) THEN ReadErr
    ELSE [ok |-> TRUE, value |-> AsOpcode(AsI8(data[off + 1])), next |-> off + 1]

RECURSIVE LebScan(_, _, _, _)
\* the number of bytes of the LEB128 varint at off, or 0 when the read fails:
\* a byte is outside the buffer, or the tenth byte (shift 63) is not one of the
\* two values `last` that fit the remaining bit
LebScan(data, off, count, last) ==
    IF off + count >= Len(data) THEN 0
    ELSE LET byte == data[off + count + 1]
         IN  IF count = NDigits - 1 /\ byte \notin last THEN 0
             ELSE IF byte < Base THEN count + 1
             ELSE LebScan(data, off, count + 1, last)

\* Uleb128::read(&self.data, offset)
ReadUleb(data, off) ==
    LET n == LebScan(data, off, 0, {0, 1})
    IN  IF n = 0 THEN ReadErr
        ELSE [ok |-> TRUE,
              value |-> Digits([i \in 1 .. NDigits |->
                            IF i <= n THEN data[off + i] % Base ELSE 0]),
              next |-> off + n]

\* Sleb128::read(&self.data, offset): the i64 as its two's complement u64
ReadSleb(data, off) ==
    LET n == LebScan(data, off, 0, {0, 127})
        negative == n > 0 /\ n < NDigits /\ (data[off + n] \div 64) % 2 = 1
    IN  IF n = 0 THEN ReadErr
        ELSE [ok |-> TRUE,
              value |-> Digits([i \in 1 .. NDigits |->
                            IF i <= n
                            THEN (IF i = NDigits THEN data[off + i] % 2
                                  ELSE data[off + i] % Base)
                            ELSE IF negative
                            THEN (IF i = NDigits THEN 1 ELSE Base - 1)
                            ELSE 0]),
              next |-> off + n]

\* a UTF-8 continuation byte
IsCont(b) == b >= 128 /\ b <= 191

RECURSIVE Utf8Valid(_, _)
\* core::str::from_utf8 accepts the bytes s[i ..]
Utf8Valid(s, i) ==
    IF i > Len(s) THEN TRUE
    ELSE LET b == s[i]
             At(k) == IF i + k <= Len(s) THEN s[i + k] ELSE 0
         IN  IF b < 128 THEN Utf8Valid(s, i + 1)
             ELSE IF b >= 194 /\ b <= 223
             THEN IsCont(At(1)) /\ Utf8Valid(s, i + 2)
             ELSE IF b >= 224 /\ b <= 239
             THEN /\ IsCont(At(1)) /\ IsCont(At(2))
                  /\ (b = 224 => At(1) >= 160)
                  /\ (b = 237 => At(1) <= 159)
                  /\ Utf8Valid(s, i + 3)
             ELSE IF b >= 240 /\ b <= 244
             THEN /\ IsCont(At(1)) /\ IsCont(At(2)) /\ IsCont(At(3))
                  /\ (b = 240 => At(1) >= 144)
                  /\ (b = 244 => At(1) <= 143)
                  /\ Utf8Valid(s, i + 4)
             ELSE FALSE

RECURSIVE StrLen(_, _)
\* the number of bytes from off up to the first NUL, or up to the end of the
\* buffer when there is none
StrLen(data, off) ==
    IF off >= Len(data) \/ data[off + 1] = 0 THEN 0
    ELSE 1 + StrLen(data, off + 1)

\* self.data.pread::<&str>(*offset): the bytes up to the NUL delimiter (or to
\* the end of the buffer), which must be UTF-8; the cursor is not moved
ReadStr(data, off) ==
    IF off >= Len(data) THEN ReadErr
    ELSE LET n == StrLen(data, off)
             s == SubSeq(data, off + 1, off + n)
         IN  IF Utf8Valid(s, 1) THEN [ok |-> TRUE, value |-> s] ELSE ReadErr

(***************************************************************************)
(* BindInformation: the accumulator                                        *)
(***************************************************************************)
\* impl Default for BindInformation
BindInformationDefault ==
    [ seg_index |-> 0,
      seg_offset |-> Zero64,
      bind_type |-> 0,
      special_dylib |-> 1,
      symbol_library_ordinal |-> 0,
      symbol_name |-> << >>,
      symbol_flags |-> 0,
      addend |-> Zero64 ]

\* BindInformation::new
BindInformationNew(is_lazy) ==
    [BindInformationDefault EXCEPT
        !.bind_type = IF is_lazy THEN BIND_TYPE_POINTER ELSE 0]

\* an is_lazy that takes every bind kind but none for lazy
IsLazy_AnyKind(bi) == bi.bind_type # 0

\* BindInformation::is_lazy
IsLazy(bi) == bi.bind_type = BIND_TYPE_POINTER

(***************************************************************************)
(* The caller's tables: two libraries; three segments at file offsets     *)
(* 0x1000, 2^64 - 32 and 0x2000, the second so close to 2^64 that a        *)
(* segment offset of 32 or more overflows the file offset.                 *)
(***************************************************************************)
LIBS == << "libSystem", "libB" >>

SEGMENTS ==
    << [fileoff |-> U64(4096)],
       [fileoff |-> Digits([i \in 1 .. NDigits |->
                               IF i = 1 THEN Base - 32
                               ELSE IF i = NDigits THEN 1 ELSE Base - 1])],
       [fileoff |-> U64(8192)] >>

(***************************************************************************)
(* Import::new.  An index past the end of a slice panics; the plain `+` of *)
(* line 66 panics on overflow when the build checks overflow and wraps     *)
(* when it does not.                                                       *)
(***************************************************************************)
Panicked == [panic |-> TRUE]

ImportNew(bi, libs, segments, checks) ==
    IF bi.seg_index >= Len(segments) THEN Panicked
    ELSE LET segment == segments[bi.seg_index + 1]
         IN  IF checks /\ AddOverflows(segment.fileoff, bi.seg_offset) THEN Panicked
             ELSE IF bi.symbol_library_ordinal >= Len(libs) THEN Panicked
             ELSE [ panic |-> FALSE,
                    import |->
                      [ name |-> bi.symbol_name,
                        dylib |-> libs[bi.symbol_library_ordinal + 1],
                        is_lazy |-> IsLazy(bi),
                        offset |-> WrappingAdd(segment.fileoff, bi.seg_offset),
                        size |-> IF IsLazy(bi) THEN 8 ELSE 0 ] ]

(***************************************************************************)
(* BindInterpreter::run, one loop iteration at a time.  A frame f is the   *)
(* state of the call: the cursor `offset`, the accumulator `bind_info`,    *)
(* the caller's vector `imports`, and `result` ("none" while the loop      *)
(* runs, then "Ok", "Err" or "Panic").  The environment e holds what the   *)
(* call only reads: data, the pointer size ctx.size(), is_lazy, and        *)
(* whether the build checks arithmetic overflow.                           *)
(***************************************************************************)
\* a failure that hands the vector back empty
Fail_RollsBack(f) == [f EXCEPT !.result = "Err", !.imports = << >>]

\* the `?` on a failed read
Fail(f) == [f EXCEPT !.result = "Err"]

\* a conversion that keeps the low 14 bits of the u64
TruncU8_Wide(v) == v[1] + Base * v[2]

\* `x as u8` of a u64
TruncU8(v) == v[1] + Base * (v[2] % 2)

\* imports.push(Import::new(&bind_info, libs, segments))
Push(e, f) ==
    LET r == ImportNew(f.bind_info, LIBS, SEGMENTS, e.checks)
    IN  IF r.panic THEN [f EXCEPT !.result = "Panic"]
        ELSE [f EXCEPT !.imports = Append(@, r.import)]

\* a DONE that resets field by field and forgets the segment offset
ExecDone_KeepsSegOffset(e, f, opcode) ==
    [f EXCEPT !.bind_info =
        [BindInformationNew(e.is_lazy) EXCEPT
            !.seg_offset = f.bind_info.seg_offset]]

\* BIND_OPCODE_DONE
ExecDone(e, f, opcode) ==
    [f EXCEPT !.bind_info = BindInformationNew(e.is_lazy)]

\* BIND_OPCODE_SET_DYLIB_ORDINAL_IMM
ExecSetDylibOrdinalImm(e, f, opcode) ==
    [f EXCEPT !.bind_info.symbol_library_ordinal =
                  BitAnd(opcode, BIND_IMMEDIATE_MASK)]

\* BIND_OPCODE_SET_DYLIB_ORDINAL_ULEB
ExecSetDylibOrdinalUleb(e, f, opcode) ==
    LET r == ReadUleb(e.data, f.offset)
    IN  IF ~r.ok THEN Fail(f)
        ELSE [f EXCEPT !.offset = r.next,
                       !.bind_info.symbol_library_ordinal = TruncU8(r.value)]

\* BIND_OPCODE_SET_DYLIB_SPECIAL_IMM
ExecSetDylibSpecialImm(e, f, opcode) ==
    [f EXCEPT !.bind_info.special_dylib = BitAnd(opcode, BIND_IMMEDIATE_MASK)]

\* BIND_OPCODE_SET_SYMBOL_TRAILING_FLAGS_IMM
ExecSetSymbolTrailingFlagsImm(e, f, opcode) ==
    LET r == ReadStr(e.data, f.offset)
    IN  IF ~r.ok THEN Fail(f)
        ELSE [f EXCEPT !.offset = f.offset + Len(r.value) + 1,
                       !.bind_info.symbol_name = r.value,
                       !.bind_info.symbol_flags =
                           BitAnd(opcode, BIND_IMMEDIATE_MASK)]

\* BIND_OPCODE_SET_TYPE_IMM
ExecSetTypeImm(e, f, opcode) ==
    [f EXCEPT !.bind_info.bind_type = BitAnd(opcode, BIND_IMMEDIATE_MASK)]

\* a SET_ADDEND_SLEB that adds the varint to the addend
ExecSetAddendSleb_Accumulates(e, f, opcode) ==
    LET r == ReadSleb(e.data, f.offset)
    IN  IF ~r.ok THEN Fail(f)
        ELSE [f EXCEPT !.offset = r.next,
                       !.bind_info.addend = WrappingAdd(@, r.value)]

\* BIND_OPCODE_SET_ADDEND_SLEB
ExecSetAddendSleb(e, f, opcode) ==
    LET r == ReadSleb(e.data, f.offset)
    IN  IF ~r.ok THEN Fail(f)
        ELSE [f EXCEPT !.offset = r.next, !.bind_info.addend = r.value]

\* BIND_OPCODE_SET_SEGMENT_AND_OFFSET_ULEB
ExecSetSegmentAndOffsetUleb(e, f, opcode) ==
    LET r == ReadUleb(e.data, f.offset)
    IN  IF ~r.ok THEN Fail(f)
        ELSE [f EXCEPT !.offset = r.next,
                       !.bind_info.seg_index =
                           BitAnd(opcode, BIND_IMMEDIATE_MASK),
                       !.bind_info.seg_offset = r.value]

\* an ADD_ADDR_ULEB that adds with checked_add and fails on overflow
ExecAddAddrUleb_Checked(e, f, opcode) ==
    LET r == ReadUleb(e.data, f.offset)
    IN  IF ~r.ok \/ AddOverflows(f.bind_info.seg_offset, r.value) THEN Fail(f)
        ELSE [f EXCEPT !.offset = r.next,
                       !.bind_info.seg_offset = WrappingAdd(@, r.value)]

\* BIND_OPCODE_ADD_ADDR_ULEB
ExecAddAddrUleb(e, f, opcode) ==
    LET r == ReadUleb(e.data, f.offset)
    IN  IF ~r.ok THEN Fail(f)
        ELSE [f EXCEPT !.offset = r.next,
                       !.bind_info.seg_offset = WrappingAdd(@, r.value)]

\* a DO_BIND that emits first and advances afterwards, as dyld does
ExecDoBind_EmitThenAdvance(e, f, opcode) ==
    LET g == Push(e, f)
    IN  [g EXCEPT !.bind_info.seg_offset = WrappingAdd(@, U64(e.size))]

\* BIND_OPCODE_DO_BIND
ExecDoBind(e, f, opcode) ==
    Push(e, [f EXCEPT !.bind_info.seg_offset = WrappingAdd(@, U64(e.size))])

\* BIND_OPCODE_DO_BIND_ADD_ADDR_ULEB
ExecDoBindAddAddrUleb(e, f, opcode) ==
    LET r == ReadUleb(e.data, f.offset)
    IN  IF ~r.ok THEN Fail(f)
        ELSE Push(e, [f EXCEPT !.offset = r.next,
                               !.bind_info.seg_offset =
                                   WrappingAdd(WrappingAdd(@, r.value),
                                               U64(e.size))])

\* BIND_OPCODE_DO_BIND_ADD_ADDR_IMM_SCALED
ExecDoBindAddAddrImmScaled(e, f, opcode) ==
    LET scale == BitAnd(opcode, BIND_IMMEDIATE_MASK)
        size == e.size
    IN  Push(e, [f EXCEPT !.bind_info.seg_offset =
                     WrappingAdd(WrappingAdd(@, U64(scale * size)), U64(size))])

\* a DO_BIND_ULEB_TIMES_SKIPPING_ULEB that emits inside its loop, so not at
\* all when count = 0
ExecDoBindUlebTimesSkippingUleb_EmitInLoop(e, f, opcode) ==
    LET c == ReadUleb(e.data, f.offset)
    IN  IF ~c.ok THEN Fail(f)
        ELSE LET s == ReadUleb(e.data, c.next)
             IN  IF ~s.ok THEN Fail(f)
                 ELSE LET step == WrappingAdd(s.value, U64(e.size))
                          g == [f EXCEPT
                                   !.offset = s.next,
                                   !.bind_info.seg_offset =
                                       WrappingAdd(@, WrappingMul(c.value, step))]
                      IN  IF c.value = Zero64 THEN g ELSE Push(e, g)

\* BIND_OPCODE_DO_BIND_ULEB_TIMES_SKIPPING_ULEB: the loop
\*     for _i in 0..count { addr += skip + ctx.size() as u64; }
\* in closed form.  Its two plain `+` panic on overflow when the build checks
\* overflow: skip + size when it is evaluated (count >= 1), and addr += ...
\* at the first partial sum that passes 2^64, that is when the exact sum does.
ExecDoBindUlebTimesSkippingUleb(e, f, opcode) ==
    LET c == ReadUleb(e.data, f.offset)
    IN  IF ~c.ok THEN Fail(f)
        ELSE LET s == ReadUleb(e.data, c.next)
             IN  IF ~s.ok THEN Fail(f)
                 ELSE LET count == c.value
                          skip == s.value
                          size == U64(e.size)
                          step == WrappingAdd(skip, size)
                          exact == Product(count, step)
                          total == Low64(exact)
                          overflows ==
                              /\ count # Zero64
                              /\ \/ AddOverflows(skip, size)
                                 \/ Exceeds64(exact)
                                 \/ AddOverflows(f.bind_info.seg_offset, total)
                      IN  IF e.checks /\ overflows
                          THEN [f EXCEPT !.offset = s.next, !.result = "Panic"]
                          ELSE Push(e, [f EXCEPT
                                   !.offset = s.next,
                                   !.bind_info.seg_offset = WrappingAdd(@, total)])

\* an unknown operation that is an error
ExecOther_Fails(e, f, opcode) == Fail(f)

\* the `_ => {}` arm
ExecOther(e, f, opcode) == f

\* opcode & BIND_OPCODE_MASK
Operation(opcode) == BitAnd(opcode, BIND_OPCODE_MASK)

\* the match of run on opcode & BIND_OPCODE_MASK
Dispatch(e, f, opcode) ==
    LET op == Operation(opcode)
    IN  CASE op = BIND_OPCODE_DONE -> ExecDone(e, f, opcode)
          [] op = BIND_OPCODE_SET_DYLIB_ORDINAL_IMM ->
                ExecSetDylibOrdinalImm(e, f, opcode)
          [] op = BIND_OPCODE_SET_DYLIB_ORDINAL_ULEB ->
                ExecSetDylibOrdinalUleb(e, f, opcode)
          [] op = BIND_OPCODE_SET_DYLIB_SPECIAL_IMM ->
                ExecSetDylibSpecialImm(e, f, opcode)
          [] op = BIND_OPCODE_SET_SYMBOL_TRAILING_FLAGS_IMM ->
                ExecSetSymbolTrailingFlagsImm(e, f, opcode)
          [] op = BIND_OPCODE_SET_TYPE_IMM -> ExecSetTypeImm(e, f, opcode)
          [] op = BIND_OPCODE_SET_ADDEND_SLEB -> ExecSetAddendSleb(e, f, opcode)
          [] op = BIND_OPCODE_SET_SEGMENT_AND_OFFSET_ULEB ->
                ExecSetSegmentAndOffsetUleb(e, f, opcode)
          [] op = BIND_OPCODE_ADD_ADDR_ULEB -> ExecAddAddrUleb(e, f, opcode)
          [] op = BIND_OPCODE_DO_BIND -> ExecDoBind(e, f, opcode)
          [] op = BIND_OPCODE_DO_BIND_ADD_ADDR_ULEB ->
                ExecDoBindAddAddrUleb(e, f, opcode)
          [] op = BIND_OPCODE_DO_BIND_ADD_ADDR_IMM_SCALED ->
                ExecDoBindAddAddrImmScaled(e, f, opcode)
          [] op = BIND_OPCODE_DO_BIND_ULEB_TIMES_SKIPPING_ULEB ->
                ExecDoBindUlebTimesSkippingUleb(e, f, opcode)
          [] OTHER -> ExecOther(e, f, opcode)

\* one iteration of the while loop of run: read the opcode byte, dispatch
Step(e, f) ==
    LET r == ReadOpcode(e.data, f.offset)
    IN  IF ~r.ok THEN Fail(f)
        ELSE Dispatch(e, [f EXCEPT !.offset = r.next], r.value)

RECURSIVE RunLoop(_, _, _)
\* the while loop of run from frame f to its return
RunLoop(e, end, f) ==
    IF f.result # "none" THEN f
    ELSE IF ~(f.offset < end) THEN [f EXCEPT !.result = "Ok"]
    ELSE RunLoop(e, end, Step(e, f))

(***************************************************************************)
(* The inputs.  A buffer is a concatenation of pieces: encoded opcodes     *)
(* with their payloads, and single bytes, so that payloads are also        *)
(* missing, cut by the end of a range, or read as opcodes.                 *)
(***************************************************************************)
\* at most this many pieces in a buffer
MaxPieces == 2

\* the varint 2^64 - 1
UlebMax == << 255, 255, 255, 255, 255, 255, 255, 255, 255, 1 >>

Pieces ==
    { << 0 >>,                   \* 00: DONE, or the varint 0, or a NUL
      << 64 >>,                  \* 40: SET_SYMBOL_TRAILING_FLAGS_IMM, no name
      << 65, 95, 112, 0 >>,      \* 41 "_p" 00: SET_SYMBOL_TRAILING_FLAGS_IMM(1)
      << 81 >>,                  \* 51: SET_TYPE_IMM(1)
      << 113, 16 >>,             \* 71 10: SET_SEGMENT_AND_OFFSET_ULEB(1, 0x10)
      << 128 >>,                 \* 80: ADD_ADDR_ULEB, or a varint byte
      << 128 >> \o UlebMax,      \* 80 ff..01: ADD_ADDR_ULEB(2^64 - 1)
      << 144 >>,                 \* 90: DO_BIND
      << 160, 8 >>,              \* a0 08: DO_BIND_ADD_ADDR_ULEB(8)
      << 192, 2, 4 >>,           \* c0 02 04: DO_BIND_ULEB_TIMES_SKIPPING_ULEB(2, 4)
      << 208 >>,                 \* d0: no such operation
      << 255 >> }                \* ff: no such operation (f0), or a varint byte

\* longer streams
Programs ==
    { \* SET_DYLIB_ORDINAL_IMM(0), SET_SYMBOL_TRAILING_FLAGS_IMM(0, "_puts"),
      \* SET_SEGMENT_AND_OFFSET_ULEB(0, 0x50), DO_BIND, DONE
      << << 16 >>, << 64, 95, 112, 117, 116, 115, 0 >>, << 112, 80 >>,
         << 144 >>, << 0 >> >>,
      \* SET_SEGMENT_AND_OFFSET_ULEB(1, 0x10), DONE,
      \* SET_SEGMENT_AND_OFFSET_ULEB(2, 0x20), DO_BIND
      << << 113, 16 >>, << 0 >>, << 114, 32 >>, << 144 >> >>,
      \* SET_DYLIB_ORDINAL_IMM(1), SET_DYLIB_SPECIAL_IMM(0), DO_BIND, e0,
      \* SET_DYLIB_ORDINAL_IMM(2), DO_BIND
      << << 17 >>, << 48 >>, << 144 >>, << 224 >>, << 18 >>, << 144 >> >>,
      \* SET_TYPE_IMM(2), DO_BIND, DONE, DO_BIND, SET_TYPE_IMM(1), DO_BIND
      << << 82 >>, << 144 >>, << 0 >>, << 144 >>, << 81 >>, << 144 >> >>,
      \* DO_BIND_ULEB_TIMES_SKIPPING_ULEB(0, 4), f0,
      \* DO_BIND_ULEB_TIMES_SKIPPING_ULEB(2^64 - 1, 2^64 - 1), DO_BIND
      << << 192, 0, 4 >>, << 240 >>, << 192 >> \o UlebMax \o UlebMax,
         << 144 >> >>,
      \* SET_SEGMENT_AND_OFFSET_ULEB(0, 0x50), DO_BIND,
      \* DO_BIND_ADD_ADDR_ULEB(8), DO_BIND_ADD_ADDR_IMM_SCALED(2)
      << << 112, 80 >>, << 144 >>, << 160, 8 >>, << 178 >> >>,
      \* SET_SEGMENT_AND_OFFSET_ULEB(1, 0x10), SET_DYLIB_ORDINAL_IMM(1), DONE,
      \* DO_BIND
      << << 113, 16 >>, << 17 >>, << 0 >>, << 144 >> >>,
      \* SET_DYLIB_ORDINAL_IMM(1), d0, DO_BIND,
      \* SET_SYMBOL_TRAILING_FLAGS_IMM(1, "_p"), ff, DO_BIND
      << << 17 >>, << 208 >>, << 144 >>, << 65, 95, 112, 0 >>, << 255 >>,
         << 144 >> >>,
      \* SET_DYLIB_ORDINAL_ULEB(257), SET_ADDEND_SLEB(-1),
      \* SET_DYLIB_SPECIAL_IMM(2), DO_BIND_ADD_ADDR_IMM_SCALED(2)
      << << 32, 129, 2 >>, << 96, 127 >>, << 50 >>, << 178 >> >>,
      \* SET_DYLIB_ORDINAL_ULEB(2048), DO_BIND, SET_DYLIB_ORDINAL_ULEB(2),
      \* DO_BIND
      << << 32, 128, 16 >>, << 144 >>, << 32, 2 >>, << 144 >> >>,
      \* SET_ADDEND_SLEB(64), DO_BIND_ADD_ADDR_IMM_SCALED(15), SET_ADDEND_SLEB
      \* and SET_DYLIB_ORDINAL_ULEB with a varint that does not end
      << << 96, 192, 0 >>, << 191 >>, << 96, 255 >>, << 32, 128 >> >>,
      \* DO_BIND, SET_SEGMENT_AND_OFFSET_ULEB(3, 0), SET_DYLIB_ORDINAL_IMM(1),
      \* DO_BIND_ADD_ADDR_ULEB(8)
      << << 144 >>, << 115, 0 >>, << 17 >>, << 160, 8 >> >>,
      \* SET_DYLIB_ORDINAL_IMM(1), DO_BIND, SET_SEGMENT_AND_OFFSET_ULEB(3, 0),
      \* DO_BIND_ULEB_TIMES_SKIPPING_ULEB(2, 4)
      << << 17 >>, << 144 >>, << 115, 0 >>, << 192, 2, 4 >> >>,
      \* DO_BIND_ADD_ADDR_ULEB and, in the next piece, its varint 8, which is
      \* also a DONE
      << << 160 >>, << 8 >> >>,
      \* DO_BIND, ADD_ADDR_ULEB and, in the next piece, a DO_BIND, which is
      \* also a varint byte that does not end
      << << 144 >>, << 128 >>, << 144 >> >> }

RECURSIVE Flatten(_)
\* the concatenation of a sequence of pieces
Flatten(ps) == IF ps = << >> THEN << >> ELSE Head(ps) \o Flatten(Tail(ps))

\* the sequences of pieces a buffer is made of
PieceSeqs ==
    Programs \cup UNION { [1 .. n -> Pieces] : n \in 0 .. MaxPieces }

\* load_command::DyldInfoCommand: the regular range is the first k pieces and
\* the lazy range the rest; or the lazy range is the whole buffer and one
\* byte more
Commands(ps) ==
    { [ bind_off |-> 0,
        bind_size |-> Len(Flatten(SubSeq(ps, 1, k))),
        lazy_bind_off |-> Len(Flatten(SubSeq(ps, 1, k))),
        lazy_bind_size |-> Len(Flatten(SubSeq(ps, k + 1, Len(ps)))) ]
      : k \in 0 .. Len(ps) }
    \cup { [ bind_off |-> 0, bind_size |-> 0,
             lazy_bind_off |-> 0, lazy_bind_size |-> Len(Flatten(ps)) + 1 ] }

\* container::Ctx::size(): the pointer size
PointerSizes == { 4, 8 }

(***************************************************************************)
(* The state                                                               *)
(***************************************************************************)
VARIABLES
    data,             \* BindInterpreter.data
    location,         \* BindInterpreter.location
    lazy_location,    \* BindInterpreter.lazy_location
    ctx_size,         \* ctx.size()
    overflow_checks,  \* the build panics on arithmetic overflow
    pc,               \* "idle", then the call of run that imports is in
                      \* ("run_false", "run_true"), then "returned"
    offset,           \* run: the cursor
    bind_info,        \* run: the accumulator
    imports,          \* the vector imports passes to run
    result,           \* "none", then how imports ends: "Ok", "Err",
                      \* or "Panic"
    returned,         \* the value the caller of imports receives
    executed,         \* history: the opcodes run has executed, [at, opcode,
                      \* lazy]: position, opcode byte, is_lazy of the call
    emitted_at        \* history: for each element of imports, the position
                      \* of the opcode that pushed it

vars ==
    << data, location, lazy_location, ctx_size, overflow_checks, pc, offset,
       bind_info, imports, result, returned, executed, emitted_at >>

inputs == << data, location, lazy_location, ctx_size, overflow_checks >>

\* get_pos of BindInterpreter::new (the sums stay below 2^32 here)
GetPos(off, size) == [start |-> off, end |-> off + size]

\* the caller of imports has received nothing yet
NotReturned == [result |-> "none"]

\* an imports that hands its vector to the caller however it ends
ImportsReturn_KeepsList(r, list) == [result |-> r, list |-> list]

\* what imports hands to its caller when it ends with r, its vector being
\* list: Ok(imports) at the end, the Err of `?` without the vector, and
\* nothing when it panics
ImportsReturn(r, list) ==
    IF r = "Ok" THEN [result |-> "Ok", list |-> list] ELSE [result |-> r]

\* BindInterpreter::new, and a caller about to call imports
Init ==
    /\ \E ps \in PieceSeqs :
         /\ data = Flatten(ps)
         /\ \E command \in Commands(ps) :
              /\ location = GetPos(command.bind_off, command.bind_size)
              /\ lazy_location =
                     GetPos(command.lazy_bind_off, command.lazy_bind_size)
    /\ ctx_size \in PointerSizes
    /\ overflow_checks \in BOOLEAN
    /\ pc = "idle"
    /\ offset = 0
    /\ bind_info = BindInformationDefault
    /\ imports = << >>
    /\ result = "none"
    /\ returned = NotReturned
    /\ executed = << >>
    /\ emitted_at = << >>

\* the is_lazy argument of the call of run in progress
is_lazy == pc = "run_true"

\* lines 119-123 of run: the range the call reads
RunLocation(lazy) == IF lazy THEN location ELSE lazy_location

Env ==
    [data |-> data, size |-> ctx_size, is_lazy |-> is_lazy,
     checks |-> overflow_checks]

Frame ==
    [offset |-> offset, bind_info |-> bind_info, imports |-> imports,
     result |-> "none"]

\* the loop of run is at its head and goes round once more
InLoop ==
    /\ pc \in {"run_false", "run_true"}
    /\ offset < RunLocation(is_lazy).end

\* the opcode byte at the cursor can be read and its operation is op
AtOperation(ops) ==
    /\ InLoop
    /\ ReadOpcode(data, offset).ok
    /\ Operation(ReadOpcode(data, offset).value) \in ops

\* the frame after the opcode byte is read, and the opcode
Fetched == [Frame EXCEPT !.offset = ReadOpcode(data, offset).next]

Opcode == ReadOpcode(data, offset).value

\* the state after one iteration that ends in frame f: an error or a panic
\* ends run, and imports with it
Commit(f) ==
    /\ offset' = f.offset
    /\ bind_info' = f.bind_info
    /\ imports' = f.imports
    /\ result' = f.result
    /\ pc' = IF f.result = "none" THEN pc ELSE "returned"
    /\ returned' = IF f.result = "none" THEN returned
                   ELSE ImportsReturn(f.result, f.imports)
    /\ executed' = IF f.result = "none"
                   THEN Append(executed, [at |-> offset, opcode |-> Opcode,
                                          lazy |-> is_lazy])
                   ELSE executed
    /\ emitted_at' =
           emitted_at \o [i \in 1 .. (Len(f.imports) - Len(imports)) |-> offset]
    /\ UNCHANGED inputs

\* imports: the empty vector, and the entry of run(false, ...)
Imports ==
    /\ pc = "idle"
    /\ pc' = "run_false"
    /\ imports' = << >>
    /\ bind_info' = BindInformationNew(FALSE)
    /\ offset' = RunLocation(FALSE).start
    /\ UNCHANGED << inputs, result, returned, executed, emitted_at >>

\* the opcode byte cannot be read: gread fails
ReadOpcodeFails ==
    /\ InLoop
    /\ ~ReadOpcode(data, offset).ok
    /\ result' = "Err"
    /\ pc' = "returned"
    /\ returned' = ImportsReturn("Err", imports)
    /\ UNCHANGED << inputs, offset, bind_info, imports, executed, emitted_at >>

Done ==
    /\ AtOperation({BIND_OPCODE_DONE})
    /\ Commit(ExecDone(Env, Fetched, Opcode))

SetDylibOrdinalImm ==
    /\ AtOperation({BIND_OPCODE_SET_DYLIB_ORDINAL_IMM})
    /\ Commit(ExecSetDylibOrdinalImm(Env, Fetched, Opcode))

SetDylibOrdinalUleb ==
    /\ AtOperation({BIND_OPCODE_SET_DYLIB_ORDINAL_ULEB})
    /\ Commit(ExecSetDylibOrdinalUleb(Env, Fetched, Opcode))

SetDylibSpecialImm ==
    /\ AtOperation({BIND_OPCODE_SET_DYLIB_SPECIAL_IMM})
    /\ Commit(ExecSetDylibSpecialImm(Env, Fetched, Opcode))

SetSymbolTrailingFlagsImm ==
    /\ AtOperation({BIND_OPCODE_SET_SYMBOL_TRAILING_FLAGS_IMM})
    /\ Commit(ExecSetSymbolTrailingFlagsImm(Env, Fetched, Opcode))

SetTypeImm ==
    /\ AtOperation({BIND_OPCODE_SET_TYPE_IMM})
    /\ Commit(ExecSetTypeImm(Env, Fetched, Opcode))

SetAddendSleb ==
    /\ AtOperation({BIND_OPCODE_SET_ADDEND_SLEB})
    /\ Commit(ExecSetAddendSleb(Env, Fetched, Opcode))

SetSegmentAndOffsetUleb ==
    /\ AtOperation({BIND_OPCODE_SET_SEGMENT_AND_OFFSET_ULEB})
    /\ Commit(ExecSetSegmentAndOffsetUleb(Env, Fetched, Opcode))

AddAddrUleb ==
    /\ AtOperation({BIND_OPCODE_ADD_ADDR_ULEB})
    /\ Commit(ExecAddAddrUleb(Env, Fetched, Opcode))

DoBind ==
    /\ AtOperation({BIND_OPCODE_DO_BIND})
    /\ Commit(ExecDoBind(Env, Fetched, Opcode))

DoBindAddAddrUleb ==
    /\ AtOperation({BIND_OPCODE_DO_BIND_ADD_ADDR_ULEB})
    /\ Commit(ExecDoBindAddAddrUleb(Env, Fetched, Opcode))

DoBindAddAddrImmScaled ==
    /\ AtOperation({BIND_OPCODE_DO_BIND_ADD_ADDR_IMM_SCALED})
    /\ Commit(ExecDoBindAddAddrImmScaled(Env, Fetched, Opcode))

DoBindUlebTimesSkippingUleb ==
    /\ AtOperation({BIND_OPCODE_DO_BIND_ULEB_TIMES_SKIPPING_ULEB})
    /\ Commit(ExecDoBindUlebTimesSkippingUleb(Env, Fetched, Opcode))

OtherOpcode ==
    /\ InLoop
    /\ ReadOpcode(data, offset).ok
    /\ Operation(ReadOpcode(data, offset).value) \notin KnownOperations
    /\ Commit(ExecOther(Env, Fetched, Opcode))

\* run(false, ...) leaves its loop and returns Ok(()): imports enters
\* run(true, ...)
RunFalseReturns ==
    /\ pc = "run_false"
    /\ ~(offset < RunLocation(FALSE).end)
    /\ pc' = "run_true"
    /\ bind_info' = BindInformationNew(TRUE)
    /\ offset' = RunLocation(TRUE).start
    /\ UNCHANGED << inputs, imports, result, returned, executed, emitted_at >>

\* run(true, ...) leaves its loop and returns Ok(()): imports returns
\* Ok(imports)
RunTrueReturns ==
    /\ pc = "run_true"
    /\ ~(offset < RunLocation(TRUE).end)
    /\ pc' = "returned"
    /\ result' = "Ok"
    /\ returned' = ImportsReturn("Ok", imports)
    /\ UNCHANGED << inputs, offset, bind_info, imports, executed, emitted_at >>

\* one call of run on the buffer d with the vector list, from its entry to
\* its return
RunPass(d, lazy, list) ==
    RunLoop([Env EXCEPT !.data = d, !.is_lazy = lazy],
            RunLocation(lazy).end,
            [offset |-> RunLocation(lazy).start,
             bind_info |-> BindInformationNew(lazy),
             imports |-> list,
             result |-> "none"])

\* imports on the buffer d: the frames its two calls of run return, the
\* second being the first when the first does not return Ok
ImportsOf(d) ==
    LET first == RunPass(d, FALSE, << >>)
    IN  [first |-> first,
         second |-> IF first.result = "Ok"
                    THEN RunPass(d, TRUE, first.imports) ELSE first]

Next ==
    \/ Imports
    \/ ReadOpcodeFails
    \/ Done
    \/ SetDylibOrdinalImm
    \/ SetDylibOrdinalUleb
    \/ SetDylibSpecialImm
    \/ SetSymbolTrailingFlagsImm
    \/ SetTypeImm
    \/ SetAddendSleb
    \/ SetSegmentAndOffsetUleb
    \/ AddAddrUleb
    \/ DoBind
    \/ DoBindAddAddrUleb
    \/ DoBindAddAddrImmScaled
    \/ DoBindUlebTimesSkippingUleb
    \/ OtherOpcode
    \/ RunFalseReturns
    \/ RunTrueReturns

Spec == Init /\ [][Next]_vars

(***************************************************************************)
(* Vocabulary of the properties                                            *)
(***************************************************************************)
\* a call of run is in progress
Running == pc \in {"run_false", "run_true"}

\* position p lies in the range r
InRange(p, r) == r.start <= p /\ p < r.end

\* element i of imports was pushed by an opcode of the regular bind range
\* (of the lazy bind range) and of that range only
FromRegular(i) ==
    InRange(emitted_at[i], location) /\ ~InRange(emitted_at[i], lazy_location)

FromLazy(i) ==
    InRange(emitted_at[i], lazy_location) /\ ~InRange(emitted_at[i], location)

\* the operation of the k-th executed opcode
ExecutedOp(k) == Operation(executed[k].opcode)

\* the last executed opcode is one of ops and the loop is back at its head
\* right behind it
JustExecuted(ops) ==
    /\ Running
    /\ executed # << >>
    /\ ExecutedOp(Len(executed)) \in ops
    /\ executed[Len(executed)].at < offset
    /\ InRange(executed[Len(executed)].at, RunLocation(is_lazy))

\* digits lo .. hi of the u64 d as a number (at most four digits: 28 bits)
Limb(d, lo, hi) ==
    LET W(i) == IF i = lo THEN 1
                ELSE IF i = lo + 1 THEN Base
                ELSE IF i = lo + 2 THEN Base * Base
                ELSE Base * Base * Base
        T(i) == IF i <= hi THEN d[i] * W(i) ELSE 0
    IN  T(lo) + T(lo + 1) + T(lo + 2) + T(lo + 3)

\* s is the sum of the (at most three) u64 in xs modulo 2^64, added in limbs
\* of 28, 28 and 8 bits
SumIs(xs, s) ==
    LET Total(lo, hi) ==
            IF xs = << >> THEN 0
            ELSE Limb(xs[1], lo, hi)
                 + (IF Len(xs) >= 2 THEN Limb(xs[2], lo, hi) ELSE 0)
                 + (IF Len(xs) >= 3 THEN Limb(xs[3], lo, hi) ELSE 0)
        t1 == Total(1, 4)
        t2 == Total(5, 8) + t1 \div 268435456
        t3 == Total(9, 10) + t2 \div 268435456
    IN  /\ Limb(s, 1, 4) = t1 % 268435456
        /\ Limb(s, 5, 8) = t2 % 268435456
        /\ Limb(s, 9, 10) = t3 % 256

\* the sum of xs passes 2^64
SumExceeds(xs) ==
    LET Total(lo, hi) ==
            Limb(xs[1], lo, hi)
            + (IF Len(xs) >= 2 THEN Limb(xs[2], lo, hi) ELSE 0)
            + (IF Len(xs) >= 3 THEN Limb(xs[3], lo, hi) ELSE 0)
        t1 == Total(1, 4)
        t2 == Total(5, 8) + t1 \div 268435456
        t3 == Total(9, 10) + t2 \div 268435456
    IN  t3 >= 256

\* the data with byte b inserted at position p (0-based)
InsertByte(d, p, b) == SubSeq(d, 1, p) \o << b >> \o SubSeq(d, p + 1, Len(d))

(***************************************************************************)
(* Properties                                                              *)
(***************************************************************************)

\* C1: when imports returns Ok, its list is the Imports of the regular bind
\* range in emission order followed by those of the lazy bind range: no Import
\* pushed by an opcode of the lazy range precedes one pushed by an opcode of
\* the regular range.
C1_RegularThenLazy ==
    result = "Ok" =>
        \A i, j \in 1 .. Len(imports) :
            i < j => ~(FromLazy(i) /\ FromRegular(j))

\* C2: the pass that reads the lazy bind range starts with bind kind
\* pointer-bind and the pass that reads the regular range with none; while no
\* SET_TYPE_IMM has been executed, every Import of the lazy range is lazy and
\* every Import of the regular range is not lazy and has size 0.
C2_KindMatchesStream ==
    /\ (Running /\ offset = RunLocation(is_lazy).start
                /\ location # lazy_location) =>
           bind_info.bind_type =
               IF RunLocation(is_lazy) = lazy_location
               THEN BIND_TYPE_POINTER ELSE 0
    /\ (\A k \in 1 .. Len(executed) : ExecutedOp(k) # BIND_OPCODE_SET_TYPE_IMM) =>
           \A i \in 1 .. Len(imports) :
               /\ FromLazy(i) => imports[i].is_lazy
               /\ FromRegular(i) => ~imports[i].is_lazy /\ imports[i].size = 0

C4_Example ==
    /\ data = << 113, 16, 0, 114, 32, 144 >>
    /\ GetPos(0, 6) \in {location, lazy_location}

\* C4: right after a DONE every accumulator field has its construction-time
\* value for the pass, whatever preceded; and the example stream emits one
\* Import, at segment 2's file offset + 0x20 + S.
C4_DoneResets ==
    /\ JustExecuted({BIND_OPCODE_DONE}) =>
          /\ bind_info.seg_index = 0
          /\ bind_info.seg_offset = << 0, 0, 0, 0, 0, 0, 0, 0, 0, 0 >>
          /\ bind_info.symbol_library_ordinal = 0
          /\ bind_info.special_dylib = 1
          /\ bind_info.symbol_name = << >>
          /\ bind_info.symbol_flags = 0
          /\ bind_info.addend = << 0, 0, 0, 0, 0, 0, 0, 0, 0, 0 >>
          /\ bind_info.bind_type = IF pc = "run_true" THEN 1 ELSE 0
    /\ (C4_Example /\ result = "Ok") =>
          /\ Len(imports) = 1
          /\ SumIs(<< SEGMENTS[3].fileoff, U64(32), U64(ctx_size) >>,
                   imports[1].offset)

\* C4 witness: the loop is right behind a DONE that followed a
\* SET_SEGMENT_AND_OFFSET_ULEB and a SET_DYLIB_ORDINAL_IMM of the same pass.
C4_Witness ==
    /\ JustExecuted({BIND_OPCODE_DONE})
    /\ Len(executed) >= 3
    /\ ExecutedOp(Len(executed) - 1) = BIND_OPCODE_SET_DYLIB_ORDINAL_IMM
    /\ ExecutedOp(Len(executed) - 2) = BIND_OPCODE_SET_SEGMENT_AND_OFFSET_ULEB
    /\ InRange(executed[Len(executed) - 2].at, RunLocation(is_lazy))
    /\ executed[Len(executed) - 2].at < executed[Len(executed)].at

\* a step of the loop that executes an opcode of ops to its end
Executes(ops) == AtOperation(ops) /\ result' = "none"

\* the step pushed one Import, at the file offset of the accumulator's segment
\* plus the segment offset the accumulator holds after the step
EmitsAtAdvanced ==
    /\ Len(imports') = Len(imports) + 1
    /\ SubSeq(imports', 1, Len(imports)) = imports
    /\ SumIs(<< SEGMENTS[bind_info'.seg_index + 1].fileoff,
                bind_info'.seg_offset >>,
             imports'[Len(imports')].offset)

C6_SizeIsPointerSize ==
    \A i \in 1 .. Len(imports) :
        imports[i].size = IF imports[i].is_lazy THEN ctx_size ELSE 0

\* C7: ADD_ADDR_ULEB(v) leaves the segment offset at (old + v) mod 2^64, also
\* when old + v passes 2^64; once its varint is read it does not fail, and it
\* pushes nothing.
C7_AddAddrWraps ==
    [][ (AtOperation({BIND_OPCODE_ADD_ADDR_ULEB})
           /\ ReadUleb(data, offset + 1).ok) =>
            /\ result' = "none"
            /\ pc' = pc
            /\ imports' = imports
            /\ SumIs(<< bind_info.seg_offset, ReadUleb(data, offset + 1).value >>,
                     bind_info'.seg_offset)
      ]_vars

\* C7 witness: an ADD_ADDR_ULEB(2^64 - 1) on the segment offset 0x10 has
\* wrapped it to 0x0f.
C7_Witness ==
    /\ JustExecuted({BIND_OPCODE_ADD_ADDR_ULEB})
    /\ Len(executed) >= 2
    /\ ExecutedOp(Len(executed) - 1) = BIND_OPCODE_SET_SEGMENT_AND_OFFSET_ULEB
    /\ SumExceeds(<< U64(16),
                     ReadUleb(data, executed[Len(executed)].at + 1).value >>)
    /\ bind_info.seg_offset = << 15, 0, 0, 0, 0, 0, 0, 0, 0, 0 >>

\* the operations 0xD0, 0xE0 and 0xF0
UnknownOperations == { 208, 224, 240 }

\* from the head of the loop, the rest of the pass ends alike, with the same
\* Import list, when a byte with an unknown operation is put at the cursor
SameWithUnknownInserted ==
    (Running /\ offset <= RunLocation(is_lazy).end /\ offset <= Len(data)) =>
        LET end == RunLocation(is_lazy).end
            Outcome(f) == << f.result, f.imports >>
            With(b) == RunLoop([Env EXCEPT !.data = InsertByte(data, offset, b)],
                               end + 1, Frame)
        IN  { Outcome(With(b)) : b \in UnknownOperations }
                = { Outcome(RunLoop(Env, end, Frame)) }

\* C8: an opcode byte with operation 0xD0, 0xE0 or 0xF0 changes no accumulator
\* field, pushes nothing, moves the cursor by exactly one byte and does not end
\* the pass; and the Import list of a stream is the same with such a byte
\* inserted at an opcode boundary.
C8_UnknownOpcodeIsSkipped ==
    /\ [][ AtOperation(UnknownOperations) =>
              /\ bind_info' = bind_info
              /\ imports' = imports
              /\ offset' = offset + 1
              /\ result' = "none"
              /\ pc' = pc
         ]_vars
    /\ []SameWithUnknownInserted

\* C8 witness: imports returned Ok with an Import pushed by a DO_BIND that
\* followed an unknown operation, itself behind a SET_DYLIB_ORDINAL_IMM.
C8_Witness ==
    /\ result = "Ok"
    /\ \E k \in 2 .. (Len(executed) - 1) :
          /\ ExecutedOp(k) \in UnknownOperations
          /\ ExecutedOp(k - 1) = BIND_OPCODE_SET_DYLIB_ORDINAL_IMM
          /\ ExecutedOp(k + 1) = BIND_OPCODE_DO_BIND
          /\ executed[k - 1].at < executed[k].at
          /\ executed[k].at < executed[k + 1].at
          /\ \E i \in 1 .. Len(imports) :
                emitted_at[i] = executed[k + 1].at /\ imports[i].dylib = LIBS[2]

\* the accumulator's segment index or library ordinal is outside its table
OutOfRange(bi) ==
    bi.seg_index >= Len(SEGMENTS) \/ bi.symbol_library_ordinal >= Len(LIBS)

\* C9: a DO_BIND-family opcode executed while the segment index or the
\* library ordinal is out of range makes run, and imports, return Err: no
\* default is substituted and nothing panics.
C9_OutOfRangeIsErr ==
    [][ (AtOperation(DoBindFamily) /\ OutOfRange(bind_info)) =>
            (result' = "Err" /\ imports' = imports)
      ]_vars

\* C10: a payload that extends past the end of the range being read makes the
\* pass fail, even when its bytes are inside the buffer: the cursor of a pass
\* that has not failed is never beyond the end of its range.
C10_CursorWithinRange ==
    (Running /\ executed # << >>
        /\ InRange(executed[Len(executed)].at, RunLocation(is_lazy))) =>
        offset <= RunLocation(is_lazy).end

\* C11: imports hands Ok with the list to its caller only when run(true, ..)
\* leaves its loop, run(false, ..) having returned before it; a pass that
\* fails ends imports at once, the caller receives the error and no list, and
\* no opcode is executed afterwards.
C11_FailFast ==
    /\ [][ /\ (result = "none" /\ result' = "Err") =>
                /\ pc' = "returned"
                /\ returned' = [result |-> "Err"]
           /\ (returned.result # "Ok" /\ returned'.result = "Ok") =>
                /\ pc = "run_true"
                /\ ~InLoop
                /\ result = "none"
                /\ returned'.list = imports
           /\ pc = "returned" => executed' = executed /\ imports' = imports
         ]_vars
    /\ [](returned.result = "Ok" => result = "Ok" /\ pc = "returned")

\* C11 witness: the first pass has failed after pushing an Import; the range
\* of the second pass is not empty and none of its opcodes was executed.
C11_Witness ==
    /\ returned = [result |-> "Err"]
    /\ Len(imports) >= 1
    /\ location.start < location.end
    /\ location.end <= lazy_location.start
    /\ \A k \in 1 .. Len(executed) : InRange(executed[k].at, lazy_location)

\* the loop iterations the call of run in progress has completed
Iterations == { k \in 1 .. Len(executed) : executed[k].lazy = is_lazy }

\* C12: every iteration of the loop either returns an error or moves the
\* cursor forward by at least one byte, so a pass has completed at most as
\* many iterations as its cursor is past the start of its range, and imports
\* ends with Ok or Err.
C12_ProgressAndTermination ==
    /\ [][ InLoop => \/ result' = "Err"
                     \/ result' = "none" /\ offset' >= offset + 1 ]_vars
    /\ [](Running =>
            Cardinality(Iterations) <= offset - RunLocation(is_lazy).start)
    /\ [](result \in {"none", "Ok", "Err"})

\* progress alone: an iteration that neither fails nor
\* panics moves the cursor forward
ProgressUnlessPanic ==
    /\ [][ InLoop => \/ result' \in {"Err", "Panic"}
                     \/ result' = "none" /\ offset' >= offset + 1 ]_vars
    /\ [](Running =>
            Cardinality(Iterations) <= offset - RunLocation(is_lazy).start)

RECURSIVE WrapEachStep(_, _, _)
\* addr after n times `addr = addr wrapping+ step`
WrapEachStep(addr, n, step) ==
    IF n = 0 THEN addr ELSE WrapEachStep(WrappingAdd(addr, step), n - 1, step)

\* t is (old + count * (skip + S)) mod 2^64, for a count below 128 by adding
\* count times, for the count 2^64 - 1 because t + (skip + S) is old; other
\* counts are not decided here
TimesSkippingTarget(old, count, skip, t) ==
    LET step == WrappingAdd(skip, U64(ctx_size))
    IN  IF count = U64(count[1]) THEN t = WrapEachStep(old, count[1], step)
        ELSE count = Max64 => SumIs(<< t, step >>, old)

\* the step of a DO_BIND_ULEB_TIMES_SKIPPING_ULEB(count, skip) whose varints
\* are read leaves the segment offset at (old + count * (skip + S)) mod 2^64
\* and pushes one Import at that offset; only Import::new can still stop it,
\* with the accumulator already advanced
TimesSkippingWraps ==
    (AtOperation({BIND_OPCODE_DO_BIND_ULEB_TIMES_SKIPPING_ULEB})
       /\ ReadUleb(data, offset + 1).ok
       /\ ReadUleb(data, ReadUleb(data, offset + 1).next).ok) =>
      LET count == ReadUleb(data, offset + 1).value
          skip == ReadUleb(data, ReadUleb(data, offset + 1).next).value
      IN  /\ TimesSkippingTarget(bind_info.seg_offset, count, skip,
                                 bind_info'.seg_offset)
          /\ \/ result' = "none" /\ EmitsAtAdvanced
             \/ /\ result' = "Panic"
                /\ \/ OutOfRange(bind_info')
                   \/ SumExceeds(<< SEGMENTS[bind_info'.seg_index + 1].fileoff,
                                    bind_info'.seg_offset >>)

\* C13: DO_BIND_ULEB_TIMES_SKIPPING_ULEB(count, skip) sets the segment offset
\* to (old + count * (skip + S)) mod 2^64, wrapping at each step and neither
\* failing nor panicking on an overflow of skip + S or of the running sum, and
\* then pushes exactly one Import carrying that offset.
C13_TimesSkippingWraps == [][TimesSkippingWraps]_vars

\* in a build that does not check overflow the plain `+` of the arm wrap
WrapsWithoutOverflowChecks == [][~overflow_checks => TimesSkippingWraps]_vars

\* a DO_BIND-family opcode is at the cursor, its payload can be read, its
\* segment index and library ordinal are inside their tables and its own
\* advance of the segment offset cannot stop it (that of
\* DO_BIND_ULEB_TIMES_SKIPPING_ULEB only for the count 0): the step reaches
\* the addition of Import::new
ReachesFileOffsetSum ==
    /\ AtOperation(DoBindFamily)
    /\ ~OutOfRange(bind_info)
    /\ Operation(Opcode) = BIND_OPCODE_DO_BIND_ADD_ADDR_ULEB =>
           ReadUleb(data, offset + 1).ok
    /\ Operation(Opcode) = BIND_OPCODE_DO_BIND_ULEB_TIMES_SKIPPING_ULEB =>
           /\ ReadUleb(data, offset + 1).ok
           /\ ReadUleb(data, offset + 1).value = Zero64
           /\ ReadUleb(data, ReadUleb(data, offset + 1).next).ok

\* C14: every emit reports (segments[seg_index].fileoff + segment offset)
\* mod 2^64; the addition of Import::new wraps, so no accumulator state makes
\* an emit fail or panic on overflow.
C14_FileOffsetWraps ==
    [][ ReachesFileOffsetSum => result' = "none" /\ EmitsAtAdvanced ]_vars

\* in a build that does not check overflow the `+` of Import::new wraps
FileOffsetWrapsWithoutOverflowChecks ==
    [][ (~overflow_checks /\ ReachesFileOffsetSum) =>
            result' = "none" /\ EmitsAtAdvanced ]_vars

\* an emit whose file offset passed 2^64 and wrapped has happened
FileOffsetHasWrapped ==
    /\ JustExecuted(DoBindFamily)
    /\ imports # << >>
    /\ SumExceeds(<< SEGMENTS[bind_info.seg_index + 1].fileoff,
                     bind_info.seg_offset >>)

\* C15: SET_DYLIB_SPECIAL_IMM(k) leaves k in the accumulator's library
\* ordinal, and an emit resolves the Import's library from that field: after
\* it, not from the ordinal an earlier SET_DYLIB_ORDINAL_* has set.
C15_SpecialReplacesOrdinal ==
    [][ /\ Executes({BIND_OPCODE_SET_DYLIB_SPECIAL_IMM}) =>
              bind_info'.symbol_library_ordinal = Opcode % 16
        /\ (Executes(DoBindFamily) /\ Len(imports') = Len(imports) + 1) =>
              imports'[Len(imports')].dylib =
                  LIBS[bind_info'.symbol_library_ordinal + 1]
      ]_vars

\* C16: an Import is lazy exactly when the accumulator's bind kind is
\* BIND_TYPE_POINTER when it is pushed, and has size 0 when it is not lazy.
\* The bind kind is the pass default (pointer-bind for run(true, ..), none for
\* run(false, ..)) at the start of a pass and after DONE, the immediate after
\* SET_TYPE_IMM, and no other opcode changes it.
C16_LazyIffPointerKind ==
    [][ /\ Executes(DoBindFamily) =>
              /\ Len(imports') = Len(imports) + 1
              /\ imports'[Len(imports')].is_lazy <=>
                     (bind_info.bind_type = BIND_TYPE_POINTER)
              /\ ~imports'[Len(imports')].is_lazy =>
                     imports'[Len(imports')].size = 0
        /\ Executes({BIND_OPCODE_SET_TYPE_IMM}) =>
              bind_info'.bind_type = Opcode % 16
        /\ Executes({BIND_OPCODE_DONE}) =>
              bind_info'.bind_type = IF is_lazy THEN BIND_TYPE_POINTER ELSE 0
        /\ (InLoop /\ result' = "none"
              /\ ~Executes({BIND_OPCODE_SET_TYPE_IMM, BIND_OPCODE_DONE})) =>
              bind_info'.bind_type = bind_info.bind_type
        /\ (pc' # pc /\ pc' \in {"run_false", "run_true"}) =>
              bind_info'.bind_type =
                  IF pc' = "run_true" THEN BIND_TYPE_POINTER ELSE 0
      ]_vars

\* C16 witness: in run(true, ..), SET_TYPE_IMM(2), DO_BIND, DONE, DO_BIND have
\* pushed an Import that is not lazy, of size 0, and then a lazy one.
C16_Witness ==
    /\ pc = "run_true"
    /\ Len(executed) >= 4
    /\ \A k \in 1 .. 4 : executed[k].lazy
    /\ executed[1].opcode = 82
    /\ ExecutedOp(2) = BIND_OPCODE_DO_BIND
    /\ ExecutedOp(3) = BIND_OPCODE_DONE
    /\ ExecutedOp(4) = BIND_OPCODE_DO_BIND
    /\ Len(imports) >= 2
    /\ ~imports[1].is_lazy /\ imports[1].size = 0
    /\ imports[2].is_lazy

\* the accumulator fields
Fields == DOMAIN BindInformationDefault

\* the step changed no accumulator field outside fs
OnlyChanges(fs) == \A x \in Fields \ fs : bind_info'[x] = bind_info[x]

\* C17: a SET_* opcode or ADD_ADDR_ULEB that is executed pushes nothing and
\* changes only the accumulator fields it names, the SET_* to the value read,
\* whatever the field held; and an emit reports the segment's file offset
\* plus the segment offset, without the addend.
C17_SetOpcodesFrame ==
    [][ /\ Executes(KnownOperations \ (DoBindFamily \cup {BIND_OPCODE_DONE})) =>
              imports' = imports
        /\ Executes({BIND_OPCODE_SET_SEGMENT_AND_OFFSET_ULEB}) =>
              /\ OnlyChanges({"seg_index", "seg_offset"})
              /\ bind_info'.seg_index = Opcode % 16
              /\ bind_info'.seg_offset = ReadUleb(data, offset + 1).value
        /\ Executes({BIND_OPCODE_SET_ADDEND_SLEB}) =>
              /\ OnlyChanges({"addend"})
              /\ bind_info'.addend = ReadSleb(data, offset + 1).value
        /\ Executes({BIND_OPCODE_SET_SYMBOL_TRAILING_FLAGS_IMM}) =>
              /\ OnlyChanges({"symbol_name", "symbol_flags"})
              /\ bind_info'.symbol_flags = Opcode % 16
              /\ bind_info'.symbol_name = ReadStr(data, offset + 1).value
        /\ Executes({BIND_OPCODE_SET_TYPE_IMM}) =>
              /\ OnlyChanges({"bind_type"})
              /\ bind_info'.bind_type = Opcode % 16
        /\ Executes({BIND_OPCODE_SET_DYLIB_ORDINAL_IMM}) =>
              /\ OnlyChanges({"symbol_library_ordinal"})
              /\ bind_info'.symbol_library_ordinal = Opcode % 16
        /\ Executes({BIND_OPCODE_SET_DYLIB_ORDINAL_ULEB}) =>
              OnlyChanges({"symbol_library_ordinal"})
        /\ Executes({BIND_OPCODE_SET_DYLIB_SPECIAL_IMM}) =>
              OnlyChanges({"special_dylib", "symbol_library_ordinal"})
        /\ Executes({BIND_OPCODE_ADD_ADDR_ULEB}) =>
              OnlyChanges({"seg_offset"})
        /\ Executes(DoBindFamily) =>
              /\ EmitsAtAdvanced
              /\ OnlyChanges({"seg_offset"})
      ]_vars

\* C17 witness: a SET_ADDEND_SLEB has replaced the addend 64 by another one,
\* after an Import was pushed with the addend 64.
C17_Witness ==
    /\ JustExecuted({BIND_OPCODE_SET_ADDEND_SLEB})
    /\ Len(executed) >= 3
    /\ ExecutedOp(Len(executed) - 2) = BIND_OPCODE_SET_ADDEND_SLEB
    /\ ReadSleb(data, executed[Len(executed) - 2].at + 1).value = U64(64)
    /\ ExecutedOp(Len(executed) - 1) \in DoBindFamily
    /\ imports # << >>
    /\ bind_info.addend # U64(64)
    /\ bind_info.addend = ReadSleb(data, executed[Len(executed)].at + 1).value

\* C18: SET_DYLIB_ORDINAL_ULEB(v), once v is read, does not fail and leaves
\* the library ordinal at v mod 256; an emit resolves the Import's library at
\* the index the ordinal holds, so at v mod 256.
C18_OrdinalUlebTruncates ==
    [][ /\ (AtOperation({BIND_OPCODE_SET_DYLIB_ORDINAL_ULEB})
              /\ ReadUleb(data, offset + 1).ok) =>
              /\ result' = "none"
              /\ bind_info'.symbol_library_ordinal =
                     Limb(ReadUleb(data, offset + 1).value, 1, 2) % 256
        /\ Executes(DoBindFamily) =>
              imports'[Len(imports')].dylib =
                  LIBS[bind_info.symbol_library_ordinal + 1]
      ]_vars

\* C18 witness: a DO_BIND right behind a SET_DYLIB_ORDINAL_ULEB(v) with v a
\* multiple of 256 above 0 has pushed an Import of libs[0].
C18_Witness ==
    /\ JustExecuted({BIND_OPCODE_DO_BIND})
    /\ Len(executed) >= 2
    /\ ExecutedOp(Len(executed) - 1) = BIND_OPCODE_SET_DYLIB_ORDINAL_ULEB
    /\ LET v == ReadUleb(data, executed[Len(executed) - 1].at + 1).value
       IN  Limb(v, 1, 4) >= 256 /\ Limb(v, 1, 4) % 256 = 0
    /\ imports # << >>
    /\ imports[Len(imports)].dylib = LIBS[1]

\* the whole-call operators agree with the steps: when imports has ended, its
\* end and its vector are those of ImportsOf
ImportsOfAgrees ==
    pc = "returned" =>
        /\ ImportsOf(data).second.result = result
        /\ ImportsOf(data).second.imports = imports

\* every call of run starts with a new accumulator, with the default bind
\* kind of the call, and with the cursor at the start of its range
PassesStartFresh ==
    [][ (pc' # pc /\ pc' \in {"run_false", "run_true"}) =>
            /\ bind_info' = BindInformationNew(pc' = "run_true")
            /\ offset' = RunLocation(pc' = "run_true").start ]_vars

\* the bytes put in place of a byte of the other range
OtherBytes == { 0, 8, 144 }

\* the positions of the buffer inside the range r (1-based)
PositionsOf(r) == { p \in 1 .. Len(data) : InRange(p - 1, r) }

\* the Imports the first and the second call of run pushed, imports having
\* returned Ok on the buffer d
FirstPassImports(d) == ImportsOf(d).first.imports

SecondPassImports(d) ==
    SubSeq(ImportsOf(d).second.imports,
           Len(ImportsOf(d).first.imports) + 1,
           Len(ImportsOf(d).second.imports))

\* C19: the two ranges not overlapping, a change of a byte of the range of one
\* pass leaves the Imports of the other pass as they were, whenever imports
\* returns Ok before and after the change.
C19_PassesIndependent ==
    (pc = "idle" /\ location.end <= lazy_location.start) =>
        \A b \in OtherBytes :
            /\ \A p \in PositionsOf(RunLocation(FALSE)) :
                  LET d == [data EXCEPT ![p] = b]
                  IN  (ImportsOf(data).second.result = "Ok"
                         /\ ImportsOf(d).second.result = "Ok") =>
                          SecondPassImports(d) = SecondPassImports(data)
            /\ \A p \in PositionsOf(RunLocation(TRUE)) :
                  LET d == [data EXCEPT ![p] = b]
                  IN  (ImportsOf(data).second.result = "Ok"
                         /\ ImportsOf(d).second.result = "Ok") =>
                          FirstPassImports(d) = FirstPassImports(data)

\* C20: no step of run removes or reorders an element of the caller's
\* vector: a step keeps the vector as a prefix and pushes at most one Import,
\* and the step that fails leaves the vector as it is, with the elements it
\* held before the call and the Imports pushed before the failing read.
C20_NoRollBack ==
    [][ Running =>
          /\ Len(imports') \in { Len(imports), Len(imports) + 1 }
          /\ SubSeq(imports', 1, Len(imports)) = imports
          /\ result' = "Err" => imports' = imports
      ]_vars

\* C20 witness: run(true, ..) was entered with an Import of run(false, ..) in
\* the vector, pushed one itself and then failed on the varint of an
\* ADD_ADDR_ULEB; the vector holds both.
C20_Witness ==
    /\ result = "Err"
    /\ Len(imports) = 2
    /\ Len(executed) = 2
    /\ ~executed[1].lazy /\ ExecutedOp(1) \in DoBindFamily
    /\ executed[2].lazy /\ ExecutedOp(2) \in DoBindFamily
    /\ emitted_at = << executed[1].at, executed[2].at >>
    /\ offset >= 1
    /\ Operation(data[offset]) = BIND_OPCODE_ADD_ADDR_ULEB

=============================================================================
